---- MODULE Spec2Model ----
(***************************************************************************)
(* The imdb-api service: the sliding-window rate limiter middleware        *)
(* (src/middlewares/rateLimiter, the TypeScript module and its JavaScript  *)
(* variant) in front of the favourites routes of the Express server.       *)
(*                                                                         *)
(* Time is Date.now(), in milliseconds.  A request carries the address     *)
(* Express reports for it (req.ip, possibly absent) and the path it asks   *)
(* for.  One step of the model is one run of the event loop: the           *)
(* middleware chain of a request up to its first await, or the             *)
(* continuation of a suspended handler.                                    *)
(***************************************************************************)
EXTENDS Integers, Sequences, FiniteSets, Bags, TLC

(***************************************************************************)
(* Bounds of the model.                                                    *)
(***************************************************************************)
\* windowInSeconds is drawn from 0 .. MaxWindow (0: a non-positive window).
MaxWindow == 1
\* maxRequests is drawn from 0 .. MaxQuota (0: a non-positive quota).
MaxQuota == 1
\* Date.now() when the service starts; later readings are offsets from it.
StartTime == 1000

\* maxRequests of the service (100 at server.ts line 48), scaled down.
ServiceQuota == 3
\* How many handlers may be suspended at an await at once.
MaxInFlight == 2

(***************************************************************************)
(* Inputs.                                                                 *)
(***************************************************************************)
\* req.ip is undefined when Express finds no address for the connection.
NoIp == "<undefined>"
\* The addresses Express reports (req.ip).
Addresses == {"10.0.0.1", "10.0.0.2"}
Ips == Addresses \cup {NoIp}
\* The paths asked for (req.originalUrl).
Paths == {"/getFavoritesMovies", "/deleteFromFavoritesMoviesById"}
\* The two implementations of the middleware found in the repository.
Variants == {"ts", "js"}

VARIABLES
  variant,          \* which implementation of the middleware is installed
  windowInSeconds,  \* IRateLimiterOptions.windowInSeconds
  maxRequests,      \* IRateLimiterOptions.maxRequests
  requests,         \* the Map<string, number[]> of the closure
  now,              \* the latest reading of Date.now()
  last,             \* what the latest run of the middleware did
  admitted,         \* history: per requester, the times of its admitted requests
  paths,            \* history: the paths of the admitted requests
  solo,             \* history: per requester, its sequence had it been alone
  alone,            \* history: the decision of the latest request had it been alone
  server,           \* which server the middleware is installed in
  favoritesMovies,  \* the array of the in-memory server
  DB_COLLECTION,    \* the documents of the collection 'favouriteMovies'
  inflight,         \* the handlers suspended at an await
  deleting,         \* the deletions sent to the collection and not yet applied
  step              \* what the latest step did: handler entered, response written

config == <<variant, windowInSeconds, maxRequests>>

history == <<admitted, paths, solo, alone>>

serviceVars == <<server, favoritesMovies, DB_COLLECTION, inflight, deleting, step>>

vars == <<config, requests, now, last, history, serviceVars>>

(***************************************************************************)
(* The middleware.                                                         *)
(***************************************************************************)
\* A JSON response body: res.json(x) of a string x is a bare JSON string,
\* of an object an object.
JsonString(s) == [kind |-> "string", value |-> s]
JsonObject(field, s) == [kind |-> "object", field |-> field, value |-> s]
NoBody == [kind |-> "none"]

\* A faulty ipTs: the key also carries the path (a quota per address and path).
ipTsPerPath(req) ==
  IF req.ip = NoIp THEN "unknown" ELSE req.ip \o ":" \o req.path

\* rateLimiter.ts line 14: `req.ip || 'unknown'`.
ipTs(req) == IF req.ip = NoIp THEN "unknown" ELSE req.ip

\* rateLimiter.ts (JS variant) line 41: `const { ip } = req.ip` reads the
\* property `ip` of the address string, which has none: ip is undefined.  With
\* req.ip itself undefined the destructuring throws a TypeError.
ipJs(req) == "undefined"
throwsJs(req) == req.ip = NoIp

\* JS variant line 42: `${ip}:${req.originalURl}`; the request has no
\* property originalURl, so the template prints "undefined" for it too.
keyJs(req) == ipJs(req) \o ":" \o "undefined"

\* The key the installed middleware files the request under.
Key(req) == IF variant = "ts" THEN ipTs(req) ELSE keyJs(req)

\* Whether the installed middleware throws before it decides.
Throws(req) == variant = "js" /\ throwsJs(req)

\* A faulty recentTs: the comparison turned round.
recentTsTurned(userRequests, t) ==
  SelectSeq(userRequests, LAMBDA time : t - time * 1000 > windowInSeconds)

\* rateLimiter.ts line 22: the timestamps kept by the filter.
recentTs(userRequests, t) ==
  SelectSeq(userRequests, LAMBDA time : t - time * 1000 < windowInSeconds)

\* JS variant line 49: the callback returns the number `now - time * 1000`,
\* which filter() reads as true unless it is 0.
recentJs(userRequests, t) ==
  SelectSeq(userRequests, LAMBDA time : t - time * 1000 # 0)

recent(userRequests, t) ==
  IF variant = "ts" THEN recentTs(userRequests, t) ELSE recentJs(userRequests, t)

\* A faulty userRequestsOf: while a handler is suspended, the check reads the
\* sequence as it was before the suspended requests were counted.
userRequestsStale(map, key) ==
  IF key \in DOMAIN map /\ inflight = EmptyBag THEN map[key] ELSE <<>>

\* Lines 17-21: the sequence stored under key, an empty one if there is none.
userRequestsOf(map, key) == IF key \in DOMAIN map THEN map[key] ELSE <<>>

\* A faulty TooMany: `>` for `>=`.
TooManyOffByOne(kept) == Len(kept) > maxRequests

\* Line 26: the quota test on the pruned sequence.
TooMany(kept) == Len(kept) >= maxRequests

\* A faulty Bucket: the rejected attempt is recorded too.
BucketRecordsAll(userRequests, t) == Append(recent(userRequests, t), t)

\* Lines 21-30 on one bucket: prune, then append now unless the quota is met.
Bucket(userRequests, t) ==
  LET kept == recent(userRequests, t)
  IN  IF TooMany(kept) THEN kept ELSE Append(kept, t)

\* A faulty Registry: the push goes to a copy, the stored array stays as pruned.
RegistryUnpushed(map, key, t) ==
  [k \in DOMAIN map \cup {key} |->
     IF k = key THEN recent(userRequestsOf(map, key), t) ELSE map[k]]

\* A faulty Registry: a key whose sequence is empty is dropped from the Map.
RegistryDropsEmpty(map, key, t) ==
  LET value(k) == IF k = key THEN Bucket(userRequestsOf(map, key), t) ELSE map[k]
  IN  [k \in {j \in DOMAIN map \cup {key} : value(j) # << >>} |-> value(k)]

\* Lines 17-30 on the registry: only the bucket of key is written.
Registry(map, key, t) ==
  [k \in DOMAIN map \cup {key} |->
     IF k = key THEN Bucket(userRequestsOf(map, key), t) ELSE map[k]]

\* No request (nothing was handed on).
NoReq == [ip |-> NoIp, path |-> ""]

\* A faulty Rejection: the message wrapped in an object.
RejectionWrapped ==
  [status |-> 429, headers |-> {},
   body |-> JsonObject("error", "Too many requests")]

\* Line 27: the response of a rejection; no header is set on it.
Rejection ==
  [status |-> 429, headers |-> {}, body |-> JsonString("Too many requests")]

\* Lines 26-31: the decision on the pruned sequence.
Decision(kept) == IF TooMany(kept) THEN "REJECT" ELSE "ADMIT"

\* A faulty NextCalls: the `return` of line 27 forgotten.
NextCallsNoReturn(decision) == 1

\* Lines 27 and 31: `return res.status(429)...` leaves before next() is
\* reached; otherwise next() is called once, with no argument.
NextCalls(decision) == IF decision = "ADMIT" THEN 1 ELSE 0

\* The request the next stage sees: the middleware writes nothing to req.
Passed(req, decision) == IF NextCalls(decision) > 0 THEN req ELSE NoReq

\* One run of the middleware on req at time t: what it decides, the response
\* it writes (status 0: none), how often it calls next() and with what.
Run(req, t) ==
  IF Throws(req)
    THEN [decision |-> "FAULT", status |-> 0, headers |-> {}, body |-> NoBody,
          nextCalls |-> 0, passed |-> NoReq, thrown |-> TRUE, map |-> requests]
    ELSE LET decision == Decision(recent(userRequestsOf(requests, Key(req)), t))
         IN  [decision |-> decision,
              status |-> IF decision = "REJECT" THEN Rejection.status ELSE 0,
              headers |-> IF decision = "REJECT" THEN Rejection.headers ELSE {},
              body |-> IF decision = "REJECT" THEN Rejection.body ELSE NoBody,
              nextCalls |-> NextCalls(decision),
              passed |-> Passed(req, decision),
              thrown |-> FALSE,
              map |-> Registry(requests, Key(req), t)]

Requests == [ip : Ips, path : Paths]

\* The first reading of Date.now() at which the installed filter drops the
\* timestamp StartTime: `now - time * 1000` reaches windowInSeconds (or 0).
LateInstant ==
  IF variant = "ts" THEN StartTime * 1000 + windowInSeconds ELSE StartTime * 1000

\* The readings of Date.now(): the start, the instant a whole window after
\* the start and the millisecond that follows it, and the late instant.
WindowEdges ==
  {StartTime, StartTime + windowInSeconds * 1000,
   StartTime + windowInSeconds * 1000 + 1}

Instants == WindowEdges \cup {LateInstant}

\* The observation of a step in which the middleware did not run.
NoRequest == [req |-> NoReq, key |-> "", decision |-> "NONE", status |-> 0,
              headers |-> {}, body |-> NoBody, nextCalls |-> 0,
              passed |-> NoReq, thrown |-> FALSE]

\* The middleware's part of a request step: Date.now() reads t.
Limit(req, t) ==
  /\ t >= now
  /\ now' = t
  /\ LET out == Run(req, t)
     IN  /\ requests' = out.map
         /\ last' = [req |-> req,
                     key |-> IF out.thrown THEN "" ELSE Key(req),
                     decision |-> out.decision, status |-> out.status,
                     headers |-> out.headers, body |-> out.body,
                     nextCalls |-> out.nextCalls,
                     passed |-> out.passed, thrown |-> out.thrown]
  /\ UNCHANGED <<variant, windowInSeconds, maxRequests>>

\* The history of a request step: the admitted request is logged under its
\* requester; solo holds, for every requester, the sequence a middleware
\* would store that was given the requests of this requester only, and alone
\* the decision that middleware gives to the request.
Observe(req, t) ==
  LET out == Run(req, t)
  IN  /\ admitted' =
           IF out.decision = "ADMIT"
             THEN [admitted EXCEPT ![req.ip] = Append(@, t)]
             ELSE admitted
      /\ paths' =
           IF out.decision = "ADMIT"
             THEN paths \cup {req.path}
             ELSE paths
      /\ solo' =
           IF out.thrown THEN solo
           ELSE [solo EXCEPT ![req.ip] = Bucket(@, t)]
      /\ alone' =
           IF out.thrown THEN "FAULT"
           ELSE Decision(recent(solo[req.ip], t))

NoStep == [kind |-> "none", handler |-> "none", id |-> "", upstream |-> 0,
           status |-> 0, body |-> NoBody]

\* rateLimiter(options) builds the closure: an empty Map, the options as given.
Init ==
  /\ variant \in Variants
  /\ windowInSeconds \in 0..MaxWindow
  /\ maxRequests \in 0..MaxQuota
  /\ requests = << >>
  /\ now = StartTime
  /\ last = NoRequest
  /\ admitted = [i \in Ips |-> <<>>]
  /\ paths = {}
  /\ solo = [i \in Ips |-> <<>>]
  /\ alone = "NONE"
  /\ server = "none"
  /\ favoritesMovies = << >>
  /\ DB_COLLECTION = {}
  /\ inflight = EmptyBag
  /\ deleting = {}
  /\ step = NoStep

\* The middleware with a next() that only returns.
rateLimiter ==
  /\ \E req \in Requests, t \in Instants : Limit(req, t) /\ Observe(req, t)
  /\ UNCHANGED serviceVars

Next == rateLimiter

Spec == Init /\ [][Next]_vars

(***************************************************************************)
(* The servers: the in-memory one (favoritesMovies) and the Firestore one  *)
(* (DB_COLLECTION).  Both install express.json(), then the middleware,     *)
(* then the routes.                                                        *)
(***************************************************************************)
Servers == {"memory", "firestore"}
MovieIds == {"tt1", "tt2"}
\* req.query.id when the query string has none.
NoId == ""

SearchByName == "/imdbSearchByName"
SearchById == "/imdbSearchById"
AddFavorite == "/addFavoritesMoviesById"
GetFavorites == "/getFavoritesMovies"
DeleteFavorite == "/deleteFromFavoritesMoviesById"

\* What the upstream API answers for a movie id: the movie, whose imdbID is
\* the id asked for, or a JSON value that holds no movie.
Movie(id) == [imdbID |-> id]
NoMovie == [imdbID |-> NoId]

\* The service is exercised by one client.
Clients == {"10.0.0.1"}

\* A request to a route: the id (or query) parameter, and whether an API key
\* is at hand (`req.headers.authorization || API_KEY`).
RouteRequests(path, ids, auths) ==
  [ip : Clients, path : {path}, id : ids, auth : auths]

\* The requests of the service arrive while Date.now() still reads the same.
ServiceInstants == {now}

ErrorBody(message) == JsonObject("error", message)

\* Firestore lines 228 and 238: `error || '...'` is the caught error, which is
\* an object and so never gives way to the message.
CaughtError == "<caught error>"

\* A step that wrote a response and left the stores alone.
Respond(kind, handler, id, status, body) ==
  /\ step' = [kind |-> kind, handler |-> handler, id |-> id, upstream |-> 0,
              status |-> status, body |-> body]
  /\ UNCHANGED <<server, favoritesMovies, DB_COLLECTION, inflight, deleting>>

\* A step that suspended a handler at an await (after a fetch when upstream = 1).
Suspend(kind, handler, upstream, h) ==
  /\ BagCardinality(inflight) < MaxInFlight
  /\ inflight' = inflight (+) SetToBag({h})
  /\ step' = [kind |-> kind, handler |-> handler, id |-> h.id,
              upstream |-> upstream, status |-> 0, body |-> NoBody]
  /\ UNCHANGED <<server, favoritesMovies, DB_COLLECTION, deleting>>

\* Lines 80-102 (136-158 in-memory): the two search handlers up to the fetch.
SearchEnter(req) ==
  IF req.id = NoId
    THEN Respond("request", req.path, req.id, 400,
                 ErrorBody(IF req.path = SearchByName
                             THEN "Missing query parameter"
                             ELSE "Missing id parameter"))
  ELSE IF ~req.auth
    THEN Respond("request", req.path, req.id, 401,
                 ErrorBody("Missing API key. Please provide authorization header."))
  ELSE Suspend("request", req.path, 1, [path |-> req.path, id |-> NoId, stage |-> "fetch"])

\* A faulty AddEnter: the test `!apiKey` is missing.
AddEnterNoKeyTest(req) ==
  IF req.id = NoId
    THEN Respond("request", req.path, req.id, 400, ErrorBody("Missing id parameter"))
  ELSE Suspend("request", req.path, 1, [path |-> req.path, id |-> req.id, stage |-> "fetch"])

\* Lines 202-226 (258-280 in-memory): the add handler up to the fetch.
AddEnter(req) ==
  IF req.id = NoId
    THEN Respond("request", req.path, req.id, 400, ErrorBody("Missing id parameter"))
  ELSE IF ~req.auth
    THEN Respond("request", req.path, req.id, 401,
                 ErrorBody("Missing API key. Please provide authorization header."))
  ELSE Suspend("request", req.path, 1, [path |-> req.path, id |-> req.id, stage |-> "fetch"])

\* The imdbIDs of a list of movies.
IdsOf(movies) == {movies[i].imdbID : i \in DOMAIN movies}

\* Line 335 of the in-memory server: the filter of the delete handler.
FilterDeleted(movies, id) == SelectSeq(movies, LAMBDA movie : movie.imdbID = id)

\* Lines 255-256 (305-307 in-memory): the list handler.
GetEnter(req) ==
  IF server = "memory"
    THEN Respond("request", req.path, req.id, 200,
                 [kind |-> "list", value |-> favoritesMovies])
    ELSE Suspend("request", req.path, 0, [path |-> req.path, id |-> NoId, stage |-> "get"])

\* A faulty DeleteEnter: the test `!id` is missing.
DeleteEnterUnguarded(req) ==
  IF server = "memory"
    THEN IF req.id \notin IdsOf(favoritesMovies)
           THEN Respond("request", req.path, req.id, 404, ErrorBody("Movie not found"))
           ELSE /\ favoritesMovies' = FilterDeleted(favoritesMovies, req.id)
                /\ step' = [kind |-> "request", handler |-> req.path,
                            id |-> req.id, upstream |-> 0, status |-> 200,
                            body |-> [kind |-> "list", value |-> favoritesMovies']]
                /\ UNCHANGED <<server, DB_COLLECTION, inflight, deleting>>
  ELSE Suspend("request", req.path, 0, [path |-> req.path, id |-> req.id, stage |-> "get"])

\* Lines 283-289 (323-337 in-memory): the delete handler; the in-memory one
\* runs to its end, the Firestore one awaits the document.
DeleteEnter(req) ==
  IF req.id = NoId
    THEN Respond("request", req.path, req.id, 400, ErrorBody("Missing id parameter"))
  ELSE IF server = "memory"
    THEN IF req.id \notin IdsOf(favoritesMovies)
           THEN Respond("request", req.path, req.id, 404, ErrorBody("Movie not found"))
           ELSE /\ favoritesMovies' = FilterDeleted(favoritesMovies, req.id)
                /\ step' = [kind |-> "request", handler |-> req.path,
                            id |-> req.id, upstream |-> 0, status |-> 200,
                            body |-> [kind |-> "list", value |-> favoritesMovies']]
                /\ UNCHANGED <<server, DB_COLLECTION, inflight, deleting>>
  ELSE Suspend("request", req.path, 0, [path |-> req.path, id |-> req.id, stage |-> "get"])

\* The history of a request of the service: its admission is logged.
Admissions(req, t) ==
  /\ admitted' =
       IF Run(req, t).decision = "ADMIT"
         THEN [admitted EXCEPT ![req.ip] = Append(@, t)]
         ELSE admitted
  /\ UNCHANGED <<paths, solo, alone>>

\* Express routes the request by its path to the handler registered for it.
Handle(req) ==
  CASE req.path \in {SearchByName, SearchById} -> SearchEnter(req)
    [] req.path = AddFavorite -> AddEnter(req)
    [] req.path = GetFavorites -> GetEnter(req)
    [] req.path = DeleteFavorite -> DeleteEnter(req)

\* app.use(rateLimiter(...)) ahead of the routes: the handler runs when the
\* middleware calls next(), on the request the middleware hands on.
Route(req, t) ==
  /\ Limit(req, t)
  /\ Admissions(req, t)
  /\ LET out == Run(req, t)
     IN  IF out.nextCalls > 0
           THEN Handle(out.passed)
           ELSE Respond("request", "none", NoId, out.status, out.body)

imdbSearchByName ==
  \E req \in RouteRequests(SearchByName, {"tt1", NoId}, BOOLEAN),
     t \in ServiceInstants : Route(req, t)

imdbSearchById ==
  \E req \in RouteRequests(SearchById, {"tt1", NoId}, BOOLEAN),
     t \in ServiceInstants : Route(req, t)

addFavoritesMoviesById ==
  \E req \in RouteRequests(AddFavorite, MovieIds \cup {NoId}, BOOLEAN),
     t \in ServiceInstants : Route(req, t)

getFavoritesMovies ==
  \E req \in RouteRequests(GetFavorites, {NoId}, {FALSE}),
     t \in ServiceInstants : Route(req, t)

deleteFromFavoritesMoviesById ==
  \E req \in RouteRequests(DeleteFavorite, MovieIds \cup {NoId}, {FALSE}),
     t \in ServiceInstants : Route(req, t)

(***************************************************************************)
(* The continuations of the suspended handlers.                            *)
(***************************************************************************)
\* A step in which the middleware does not run.
Idle ==
  /\ last' = NoRequest
  /\ UNCHANGED <<config, requests, now, history>>

Resume(h) ==
  /\ BagIn(h, inflight)
  /\ inflight' = inflight (-) SetToBag({h})
  /\ Idle
  /\ UNCHANGED <<server, deleting>>

Written(h, status, body) ==
  step' = [kind |-> "resume", handler |-> h.path, id |-> h.id, upstream |-> 0,
           status |-> status, body |-> body]

\* Lines 104-109 (160-165): the search answers with the data, or 500.
SearchSettled ==
  \E h \in BagToSet(inflight), ok \in BOOLEAN :
    /\ h.path \in {SearchByName, SearchById}
    /\ Resume(h)
    /\ IF ok THEN Written(h, 200, [kind |-> "data"])
             ELSE Written(h, 500, ErrorBody("Failed to fetch IMDB data"))
    /\ UNCHANGED <<favoritesMovies, DB_COLLECTION>>

\* In-memory lines 282-289: push the data and answer with it, or 500.
AddPushed ==
  \E h \in BagToSet(inflight), found \in BOOLEAN, ok \in BOOLEAN :
    LET data == IF found THEN Movie(h.id) ELSE NoMovie IN
    /\ server = "memory"
    /\ h.path = AddFavorite
    /\ Resume(h)
    /\ IF ok
         THEN /\ favoritesMovies' = Append(favoritesMovies, data)
              /\ Written(h, 200, [kind |-> "movie", value |-> data])
         ELSE /\ favoritesMovies' = favoritesMovies
              /\ Written(h, 500, ErrorBody("Failed to fetch IMDB data"))
    /\ UNCHANGED DB_COLLECTION

\* Firestore lines 216-234: the fetch settled; with a movie in the data the
\* handler goes on to await set(), without one `data.result.imdbID` throws.
AddFetched ==
  \E h \in BagToSet(inflight), found \in BOOLEAN, ok \in BOOLEAN :
    LET data == IF found THEN Movie(h.id) ELSE NoMovie IN
    /\ server = "firestore"
    /\ h.path = AddFavorite /\ h.stage = "fetch"
    /\ BagIn(h, inflight)
    /\ IF ok /\ data # NoMovie
         THEN /\ inflight' = (inflight (-) SetToBag({h}))
                               (+) SetToBag({[h EXCEPT !.stage = "set"]})
              /\ Written(h, 0, NoBody)
         ELSE /\ inflight' = inflight (-) SetToBag({h})
              /\ Written(h, 500, ErrorBody(CaughtError))
    /\ Idle
    /\ UNCHANGED <<server, favoritesMovies, DB_COLLECTION, deleting>>

\* Firestore lines 234-239: set() settled.
AddStored ==
  \E h \in BagToSet(inflight), ok \in BOOLEAN :
    /\ server = "firestore"
    /\ h.path = AddFavorite /\ h.stage = "set"
    /\ Resume(h)
    /\ IF ok
         THEN /\ DB_COLLECTION' = DB_COLLECTION \cup {h.id}
              /\ Written(h, 200, [kind |-> "movie", value |-> Movie(h.id)])
         ELSE /\ DB_COLLECTION' = DB_COLLECTION
              /\ Written(h, 500, ErrorBody(CaughtError))
    /\ UNCHANGED favoritesMovies

\* Firestore lines 256-263: the snapshot of the collection arrived.
FavoritesRead ==
  \E h \in BagToSet(inflight) :
    /\ h.path = GetFavorites
    /\ Resume(h)
    /\ Written(h, 200, [kind |-> "docs", value |-> DB_COLLECTION])
    /\ UNCHANGED <<favoritesMovies, DB_COLLECTION>>

\* Firestore lines 289-297: the document arrived; if it exists its deletion
\* is sent and, without awaiting it, the handler answers.
DeleteLooked ==
  \E h \in BagToSet(inflight) :
    /\ h.path = DeleteFavorite
    /\ BagIn(h, inflight)
    /\ inflight' = inflight (-) SetToBag({h})
    /\ IF h.id \in DB_COLLECTION
         THEN /\ deleting' = deleting \cup {h.id}
              /\ Written(h, 200, JsonObject("message", "Movie deleted successfully"))
         ELSE /\ deleting' = deleting
              /\ Written(h, 404, ErrorBody("Movie not found"))
    /\ Idle
    /\ UNCHANGED <<server, favoritesMovies, DB_COLLECTION>>

\* Firestore line 295: the collection carries a deletion out.
DeleteApplied ==
  \E id \in deleting :
    /\ deleting' = deleting \ {id}
    /\ DB_COLLECTION' = DB_COLLECTION \ {id}
    /\ step' = [kind |-> "write", handler |-> "none", id |-> id,
                upstream |-> 0, status |-> 0, body |-> NoBody]
    /\ Idle
    /\ UNCHANGED <<server, favoritesMovies, inflight>>

\* The service as started by server.ts: the TypeScript middleware, a positive
\* window and quota (60 and 100 in the source, scaled to the bounds here).
InitService ==
  /\ variant = "ts"
  /\ windowInSeconds = MaxWindow
  /\ maxRequests = ServiceQuota
  /\ requests = << >>
  /\ now = StartTime
  /\ last = NoRequest
  /\ admitted = [i \in Ips |-> <<>>]
  /\ paths = {}
  /\ solo = [i \in Ips |-> <<>>]
  /\ alone = "NONE"
  /\ server \in Servers
  /\ favoritesMovies = << >>
  /\ DB_COLLECTION = {}
  /\ inflight = EmptyBag
  /\ deleting = {}
  /\ step = NoStep

NextService ==
  \/ imdbSearchByName
  \/ imdbSearchById
  \/ addFavoritesMoviesById
  \/ getFavoritesMovies
  \/ deleteFromFavoritesMoviesById
  \/ SearchSettled
  \/ AddPushed
  \/ AddFetched
  \/ AddStored
  \/ FavoritesRead
  \/ DeleteLooked
  \/ DeleteApplied

SpecService == InitService /\ [][NextService]_vars

(***************************************************************************)
(* Properties of the middleware (checked under Spec).                      *)
(***************************************************************************)
\* The window in the unit of the stored timestamps.
WindowMs == windowInSeconds * 1000

Positive == windowInSeconds > 0 /\ maxRequests > 0

\* The latest step ran the middleware to a decision.
Decided == last.decision \in {"ADMIT", "REJECT"}

\* The requesters whose requests are filed under key k.
RequestersOf(k) ==
  {ip \in Ips : ~Throws([ip |-> ip, path |-> ""]) /\ Key([ip |-> ip, path |-> ""]) = k}

\* How many of the times of log lie in the window that ends at instant e.
InWindow(log, e) ==
  Cardinality({i \in DOMAIN log : log[i] <= e /\ e - log[i] < WindowMs})

RECURSIVE SumInWindow(_, _)
SumInWindow(ips, e) ==
  IF ips = {} THEN 0
  ELSE LET ip == CHOOSE x \in ips : TRUE
       IN  InWindow(admitted[ip], e) + SumInWindow(ips \ {ip}, e)

\* The ADMIT decisions given to key k in the window that ends at e.
AdmitsInWindow(k, e) == SumInWindow(RequestersOf(k), e)

\* The times at which a request was admitted.
AdmitTimes == UNION {{admitted[ip][i] : i \in DOMAIN admitted[ip]} : ip \in Ips}

\* The admissions of a requester before the request of the latest step.
Earlier(ip) ==
  IF last.decision = "ADMIT" /\ last.req.ip = ip
    THEN SubSeq(admitted[ip], 1, Len(admitted[ip]) - 1)
    ELSE admitted[ip]

EarlierTimes(k) ==
  UNION {{Earlier(ip)[i] : i \in DOMAIN Earlier(ip)} : ip \in RequestersOf(k)}

RECURSIVE SumEarlier(_)
SumEarlier(ips) ==
  IF ips = {} THEN 0
  ELSE LET ip == CHOOSE x \in ips : TRUE
       IN  Len(Earlier(ip)) + SumEarlier(ips \ {ip})

\* C1 (quota invariant): with a positive window and quota, for every key and
\* every instant at which a window may end (now, or the time of any
\* admission), at most maxRequests of the key's admissions lie in the
\* trailing window of windowInSeconds seconds.
C1_QuotaInvariant ==
  Positive =>
    \A k \in DOMAIN requests, e \in AdmitTimes \cup {now} :
      AdmitsInWindow(k, e) <= maxRequests

\* C1, its case: a key whose window is full is refused.
C1_Witness ==
  /\ Positive
  /\ last.decision = "REJECT"
  /\ AdmitsInWindow(last.key, now) = maxRequests

\* C2 (window expiry), as claimed: a request that comes more than a whole
\* window after every earlier admission of its key is admitted.
C2_WindowExpiry ==
  (/\ Positive
   /\ Decided
   /\ \A T \in EarlierTimes(last.key) : now >= T + WindowMs + 1)
  => last.decision = "ADMIT"

\* C3 (independent buckets), as claimed: the sequence stored for a requester
\* is the one that would be stored had the requests of the other requesters
\* never been processed, and the decision given to its request is the one it
\* would have been given then.
C3_IndependentBuckets ==
  Positive =>
    /\ \A ip \in Ips :
         ~Throws([ip |-> ip, path |-> ""]) =>
           userRequestsOf(requests, Key([ip |-> ip, path |-> ""])) = solo[ip]
    /\ last.decision = alone

\* C4 (boundary exactness): while all admissions of a key lie within one
\* window of now, its request is admitted exactly when fewer than
\* maxRequests were admitted before: the first maxRequests are, the next is not.
C4_BoundaryExactness ==
  (/\ Positive
   /\ Decided
   /\ \A T \in EarlierTimes(last.key) : now - T < WindowMs)
  => (last.decision = "ADMIT" <=> SumEarlier(RequestersOf(last.key)) < maxRequests)

\* C4, its case: the request after the maxRequests-th, in the same window.
C4_Witness ==
  /\ Positive
  /\ maxRequests = MaxQuota
  /\ last.decision = "REJECT"
  /\ SumEarlier(RequestersOf(last.key)) = maxRequests
  /\ \A T \in EarlierTimes(last.key) : now - T < WindowMs

\* C5 (rejection payload): a rejection is the response 429 with the bare
\* JSON string "Too many requests" and no header of its own (no Retry-After),
\* nothing is thrown, next() is not called; and the middleware writes no
\* other response.
C5_RejectionPayload ==
  /\ last.decision = "REJECT" =>
       /\ last.status = 429
       /\ last.body = [kind |-> "string", value |-> "Too many requests"]
       /\ last.headers = {}
       /\ ~last.thrown
       /\ last.nextCalls = 0
  /\ last.decision # "REJECT" => last.status = 0 /\ last.body = NoBody

\* C5, its case: a rejected request.
C5_Witness == last.decision = "REJECT" /\ Positive

C8_UnknownFallback ==
  (last.decision # "NONE" /\ last.req.ip = NoIp) =>
    /\ ~last.thrown
    /\ Decided
    /\ last.key = "unknown"
    /\ \A ip \in Addresses : "unknown" \notin {Key([ip |-> ip, path |-> q]) : q \in Paths}

\* C9 (configuration validation), as claimed: no middleware built with a
\* non-positive window or quota processes a request.
C9_ConfigValidated == last.decision # "NONE" => Positive

(***************************************************************************)
(* Properties of the service (checked under SpecService).                  *)
(***************************************************************************)
stores == <<favoritesMovies, DB_COLLECTION, inflight, deleting>>

\* C7 (the middleware runs ahead of the routes): a step that rejects a
\* request answers 429, enters no handler, starts no upstream call and leaves
\* the favourites, the suspended handlers and the pending deletions as they
\* were; a step that admits one calls next() once and enters the handler of
\* the request's path with the request as it came; no handler is entered
\* otherwise.
C7_LimiterFirst ==
  [][/\ (step'.kind = "request" /\ last'.decision = "REJECT") =>
          /\ last'.nextCalls = 0
          /\ step'.handler = "none"
          /\ step'.upstream = 0
          /\ step'.status = 429
          /\ UNCHANGED stores
     /\ (step'.kind = "request" /\ last'.decision = "ADMIT") =>
          /\ last'.nextCalls = 1
          /\ last'.passed = last'.req
          /\ step'.handler = last'.req.path
     /\ (step'.kind = "request" /\ step'.handler # "none") =>
          last'.decision = "ADMIT"]_vars

\* C7, its case: a request to add a favourite, with id and API key, is
\* rejected while the service holds favourites.
C7_Witness ==
  /\ step.kind = "request"
  /\ last.decision = "REJECT"
  /\ last.req.path = AddFavorite
  /\ last.req.id # NoId
  /\ last.req.auth
  /\ (favoritesMovies # << >> \/ DB_COLLECTION # {})

\* C10 (remove from favourites), as claimed: when the delete handler answers
\* 200 for an id, the favourites (for Firestore: the documents not under
\* deletion) hold no movie of that id and still hold every other movie.
C10_DeleteRemoves ==
  [][(step'.handler = DeleteFavorite /\ step'.status = 200) =>
       IF server = "memory"
         THEN /\ step'.id \notin IdsOf(favoritesMovies')
              /\ IdsOf(favoritesMovies) \ {step'.id} \subseteq IdsOf(favoritesMovies')
         ELSE /\ step'.id \notin DB_COLLECTION' \ deleting'
              /\ DB_COLLECTION \ {step'.id} \subseteq DB_COLLECTION']_vars

\* C11 (favourites keyed by movie id), as claimed: the list that GET
\* /getFavoritesMovies answers with holds at most one entry per movie id, so
\* that adding an id twice is the same as adding it once.
C11_KeyedById ==
  (step.handler = GetFavorites /\ step.status = 200 /\ step.body.kind = "list") =>
    \A i, j \in DOMAIN step.body.value :
      (/\ step.body.value[i].imdbID \in MovieIds
       /\ step.body.value[i].imdbID = step.body.value[j].imdbID) => i = j

\* The timestamps of a sequence that lie inside the window that ends at t:
\* the pruning rule as documented, `t - time < windowInSeconds * 1000`.
InsideWindow(userRequests, t) ==
  SelectSeq(userRequests, LAMBDA time : t - time < WindowMs)

\* C12 (pruning rule), as claimed: with a positive window and quota, a
\* request at time now leaves under its key exactly the previously stored
\* timestamps younger than the window, in their order (followed by now if the
\* request is admitted); older ones are removed, younger ones never.
C12_PruningRule ==
  [][(Positive /\ last'.decision \in {"ADMIT", "REJECT"}) =>
       LET kept == InsideWindow(userRequestsOf(requests, last'.key), now')
       IN  requests'[last'.key] =
             IF last'.decision = "ADMIT" THEN Append(kept, now') ELSE kept]_vars

\* C13 (a rejection is not recorded): a request is rejected exactly when the
\* pruned sequence of its key has maxRequests entries or more; the sequence
\* stored for the key afterwards is the pruned one with nothing appended, the
\* other keys keep theirs, and at no later instant does the key hold more
\* timestamps than it would have held without the rejected attempt.
C13_RejectNotRecorded ==
  [][(last'.decision \in {"ADMIT", "REJECT"}) =>
       LET prev == userRequestsOf(requests, last'.key)
           kept == recent(prev, now')
       IN  /\ last'.decision = "REJECT" <=> Len(kept) >= maxRequests
           /\ last'.decision = "REJECT" =>
                /\ requests'[last'.key] = kept
                /\ \A k \in DOMAIN requests \ {last'.key} : requests'[k] = requests[k]
                /\ \A t \in Instants :
                     t >= now' =>
                       Len(recent(requests'[last'.key], t)) <= Len(recent(prev, t))]_vars

\* C13, its case: with a positive window and quota, an attempt later than
\* every stored timestamp of its key is rejected.
C13_Witness ==
  /\ Positive
  /\ last.decision = "REJECT"
  /\ requests[last.key] # << >>
  /\ \A i \in DOMAIN requests[last.key] : requests[last.key][i] < now

\* C14 (an admission is recorded): a request is admitted exactly when the
\* pruned sequence of its key has fewer than maxRequests entries; next() is
\* then called, and the sequence stored in the registry for the key is the
\* pruned one followed by now, which is what the key's next request reads.
C14_AdmitRecorded ==
  [][(last'.decision \in {"ADMIT", "REJECT"}) =>
       LET kept == recent(userRequestsOf(requests, last'.key), now')
       IN  /\ last'.decision = "ADMIT" <=> Len(kept) < maxRequests
           /\ last'.decision = "ADMIT" =>
                /\ last'.nextCalls = 1
                /\ requests'[last'.key] = Append(kept, now')
                /\ userRequestsOf(requests', last'.key)[Len(kept) + 1] = now']_vars

\* C14, its case: a request after the first instant is admitted and its time
\* is the last entry stored for its key.
C14_Witness ==
  /\ Positive
  /\ last.decision = "ADMIT"
  /\ now > StartTime
  /\ requests[last.key][Len(requests[last.key])] = now

\* C15 (atomic admission): whatever handlers are suspended at an await, the
\* middleware runs from its read to its push in one step of the event loop:
\* the sequence a check reads holds every admission made so far, those of the
\* suspended requests included, and no client is admitted more than
\* maxRequests times within the window.
C15_AtomicAdmission ==
  \A ip \in Clients :
    /\ userRequestsOf(requests, ipTs([ip |-> ip, path |-> ""])) = admitted[ip]
    /\ Len(admitted[ip]) <= maxRequests

\* C15, its case: a request is rejected on a full quota while as many
\* handlers as can be are suspended, each of a request of the same client.
C15_Witness ==
  /\ step.kind = "request"
  /\ last.decision = "REJECT"
  /\ BagCardinality(inflight) = MaxInFlight
  /\ Len(admitted[last.req.ip]) = maxRequests

\* C16 (exactly one outcome), as claimed: every run of the middleware ends
\* without a throw, either with next() called once and no response written,
\* or with the response 429 written and next() not called.
C16_OneOutcome ==
  last.decision # "NONE" =>
    /\ ~last.thrown
    /\ \/ last.nextCalls = 1 /\ last.status = 0
       \/ last.nextCalls = 0 /\ last.status = 429

\* C17 (registry lifecycle): the registry is empty until the middleware has
\* handled a request; a request that is
\* decided, admitted or rejected, has an entry under its key afterwards; and
\* no step removes a key, one with an empty sequence included.
C17_RegistryLifecycle ==
  [][/\ last.decision = "NONE" => requests = << >>
     /\ DOMAIN requests \subseteq DOMAIN requests'
     /\ last'.decision \in {"ADMIT", "REJECT"} => last'.key \in DOMAIN requests'
     /\ DOMAIN requests' \subseteq DOMAIN requests \cup {last'.key}]_vars

\* C17, its case: the first request of a key is rejected and the key is in
\* the registry, with an empty sequence, beside another key.
C17_Witness ==
  /\ last.decision = "REJECT"
  /\ last.key \in DOMAIN requests
  /\ requests[last.key] = << >>
  /\ Cardinality(DOMAIN requests) >= 2

\* C18 (stored-length bound): with maxRequests >= 1 no key holds more than
\* maxRequests timestamps, and every stored timestamp is the time of an
\* admitted request of that key.
C18_StoredLengthBound ==
  \A k \in DOMAIN requests :
    /\ maxRequests >= 1 => Len(requests[k]) <= maxRequests
    /\ \A i \in DOMAIN requests[k] :
         \E ip \in RequestersOf(k) :
           \E j \in DOMAIN admitted[ip] : admitted[ip][j] = requests[k][i]

\* C18, its case: a key holds maxRequests timestamps after more than
\* maxRequests of its requests have been admitted.
C18_Witness ==
  /\ Positive
  /\ \E k \in DOMAIN requests :
       /\ Len(requests[k]) = maxRequests
       /\ \E ip \in RequestersOf(k) : Len(admitted[ip]) > maxRequests

\* The favourites of either server, with the deletions under way.
favorites == <<favoritesMovies, DB_COLLECTION, deleting>>

\* C19 (delete error outcomes): a delete request without an id is answered
\* 400 on entering the handler; one whose id is not among the favourites when
\* the handler looks it up is answered 404 with the body "Movie not found";
\* and a step that answers 400 or 404 leaves the favourites as they were.
C19_DeleteErrors ==
  [][step'.handler = DeleteFavorite =>
       /\ (step'.kind = "request" /\ last'.req.id = NoId) =>
            step'.status = 400 /\ step'.body = ErrorBody("Missing id parameter")
       /\ (step'.kind = "request" /\ server = "memory" /\ last'.req.id # NoId
             /\ last'.req.id \notin IdsOf(favoritesMovies)) =>
            step'.status = 404 /\ step'.body = ErrorBody("Movie not found")
       /\ (step'.kind = "resume" /\ step'.id \notin DB_COLLECTION) =>
            step'.status = 404 /\ step'.body = ErrorBody("Movie not found")
       /\ step'.status \in {400, 404} => UNCHANGED favorites]_vars

\* C19, its case: a delete of an id that is not a favourite is answered 404
\* while other favourites are stored.
C19_Witness ==
  /\ step.handler = DeleteFavorite
  /\ step.status = 404
  /\ step.id \in MovieIds
  /\ (favoritesMovies # << >> \/ DB_COLLECTION # {})

\* C20 (add error outcomes): an add request without an id is answered 400 and
\* one with an id but no API key 401, both without an upstream call (a call
\* is started only with an id and a key); and a step of the add handler that
\* answers 400, 401 or 500 leaves the favourites as they were.
C20_AddErrors ==
  [][step'.handler = AddFavorite =>
       /\ (step'.kind = "request" /\ last'.req.id = NoId) =>
            step'.status = 400 /\ step'.upstream = 0
       /\ (step'.kind = "request" /\ last'.req.id # NoId /\ ~last'.req.auth) =>
            step'.status = 401 /\ step'.upstream = 0
       /\ step'.upstream = 1 =>
            step'.kind = "request" /\ last'.req.id # NoId /\ last'.req.auth
       /\ step'.status \in {400, 401, 500} => UNCHANGED favorites]_vars

\* C20, its case: an add is answered 500 after its upstream call, while
\* favourites are stored.
C20_Witness ==
  /\ step.handler = AddFavorite
  /\ step.kind = "resume"
  /\ step.status = 500
  /\ (favoritesMovies # << >> \/ DB_COLLECTION # {})

====
